---- MODULE Spec2Model ----
(***************************************************************************)
(* Loan risk-decision engine: UserCreditData, RiskAssessment and           *)
(* RiskControlStrategy of risk_control_strategy.py, and the batch loop     *)
(* run_strategy_test of test_risk_strategy.py.                             *)
(*                                                                         *)
(* Units.  Ratios given as inputs (debt_to_income) and the ratio           *)
(* thresholds are in hundredths (0.50 is 50).  A per-dimension risk is in  *)
(* 1/300 (0.02 is 6; the demographic mean of three hundredths is then an   *)
(* integer).  A weight is in hundredths (0.35 is 35), so a weighted risk   *)
(* is in 1/30000.  A composite score is in hundredths (60.00 is 6000).     *)
(* monthly_payment and payment_to_income are exact fractions [num, den].   *)
(*                                                                         *)
(* Strings.  The decision values and the table keys of the source are      *)
(* Chinese text; the model writes them in English:                         *)
(*   "approve" = 批准, "reject" = 拒绝,                                    *)
(*   industries finance 金融, IT, manufacturing 制造业, retail 零售,       *)
(*   education 教育, healthcare 医疗, real_estate 房地产, other 其他,      *)
(*   degrees doctorate 博士, master 硕士, bachelor 本科, associate 大专,   *)
(*   high_school 高中及以下.                                               *)
(***************************************************************************)
EXTENDS Integers, Sequences, FiniteSets, TLC

VARIABLES
    data,              \* the rows of the DataFrame handed to run_strategy_test
    strict_strategy,   \* RiskControlStrategy(strict_mode=True)
    relaxed_strategy,  \* RiskControlStrategy(strict_mode=False)
    strict_results,    \* list of result dicts, strict policy
    relaxed_results,   \* list of result dicts, relaxed policy
    user_data,         \* <<>> or <<the UserCreditData built for the current row>>
    scored,            \* <<>> or <<risk_score, risk_dimensions>> bound at line 340
    checked,           \* <<>> or <<hard_rules_passed, failed_rules>> bound at line 343
    round_up,          \* side on which a double lies when the exact value is a decimal tie
    pc                 \* position of the caller

vars == <<data, strict_strategy, relaxed_strategy, strict_results,
          relaxed_results, user_data, scored, checked, round_up, pc>>

----------------------------------------------------------------------------
(* Arithmetic helpers *)

Abs(x) == IF x < 0 THEN -x ELSE x

Min(a, b) == IF a < b THEN a ELSE b

Max(a, b) == IF a > b THEN a ELSE b

RECURSIVE GCD(_, _)
GCD(a, b) == IF b = 0 THEN a ELSE GCD(b, a % b)

RECURSIVE Pow(_, _)
Pow(b, k) == IF k = 0 THEN 1 ELSE b * Pow(b, k - 1)

\* The fraction n/d (d # 0) in lowest terms with a positive denominator.
Frac(n, d) ==
    LET g == GCD(Abs(n), Abs(d))
        s == IF d < 0 THEN -1 ELSE 1
    IN  [num |-> s * (n \div g), den |-> s * (d \div g)]

\* round(): the nearest integer to n/d (d > 0).  Python rounds the double that
\* stands for the value; when the exact value is a tie that double lies just
\* below or just above it, so the result is the lower or the upper neighbour.
Round(n, d, up) ==
    LET q == n \div d
        r == n % d
    IN  IF 2 * r > d THEN q + 1
        ELSE IF 2 * r < d THEN q
        ELSE IF up THEN q + 1 ELSE q

\* floor(n * 10^k / d) and the remainder, digit by digit (d > 0)
RECURSIVE Shift(_, _, _)
Shift(n, d, k) ==
    IF k = 0 THEN [q |-> n \div d, r |-> n % d]
    ELSE LET p == Shift(n, d, k - 1)
         IN  [q |-> 10 * p.q + ((10 * p.r) \div d), r |-> (10 * p.r) % d]

\* round(n/d, k) in units of 10^-k, ties as in Round
RoundPlaces(n, d, k, up) ==
    LET s == Shift(n, d, k)
    IN  IF 2 * s.r > d THEN s.q + 1
        ELSE IF 2 * s.r < d THEN s.q
        ELSE IF up THEN s.q + 1 ELSE s.q

\* dict.get(key, default) on a dict kept as a sequence of <<key, value>> pairs
RECURSIVE Get(_, _, _)
Get(dict, key, default) ==
    IF dict = <<>> THEN default
    ELSE IF Head(dict)[1] = key THEN Head(dict)[2]
    ELSE Get(Tail(dict), key, default)

----------------------------------------------------------------------------
(* UserCreditData *)

\* _calculate_monthly_payment: loan_amount * r * (1+r)^n / ((1+r)^n - 1) with
\* r = 0.05/12 = 1/240.  With a = 241^|n| and b = 240^|n| this is
\* L*a / (240*(a-b)) for n > 0 and L*b / (240*(b-a)) for n < 0; for n = 0 the
\* divisor (1+r)^0 - 1 is 0.0 and the float division raises ZeroDivisionError.
calculate_monthly_payment(loan_amount, loan_term) ==
    IF loan_term = 0
    THEN [raised |-> TRUE, value |-> Frac(0, 1)]
    ELSE LET a == Pow(241, Abs(loan_term))
             b == Pow(240, Abs(loan_term))
             p == IF loan_term > 0 THEN a ELSE b
             d == IF loan_term > 0 THEN 240 * (a - b) ELSE 240 * (b - a)
             g == GCD(Abs(loan_amount), Abs(d))
         IN  [raised |-> FALSE,
              value  |-> Frac((loan_amount \div g) * p, d \div g)]

\* the guard written income != 0: a negative income gets a ratio
payment_to_income_nonzero(monthly_payment, income) ==
    IF income # 0
    THEN LET g == GCD(Abs(monthly_payment.num), Abs(income))
         IN  Frac(monthly_payment.num \div g, monthly_payment.den * (income \div g))
    ELSE Frac(0, 1)

\* payment_to_income = monthly_payment / income if income > 0 else 0
payment_to_income(monthly_payment, income) ==
    IF income > 0
    THEN LET g == GCD(Abs(monthly_payment.num), income)
         IN  Frac(monthly_payment.num \div g, monthly_payment.den * (income \div g))
    ELSE Frac(0, 1)

\* UserCreditData.__init__ raises when the monthly payment cannot be computed
ConstructionRaises(row) ==
    calculate_monthly_payment(row.loan_amount, row.loan_term).raised

\* UserCreditData.__init__: the row's fields plus the two derived figures
UserCreditData(row) ==
    LET mp == calculate_monthly_payment(row.loan_amount, row.loan_term).value
    IN  [user_id                |-> row.user_id,
         age                    |-> row.age,
         income                 |-> row.income,
         credit_score           |-> row.credit_score,
         debt_to_income         |-> row.debt_to_income,
         loan_amount            |-> row.loan_amount,
         loan_term              |-> row.loan_term,
         employment_years       |-> row.employment_years,
         number_of_credit_lines |-> row.number_of_credit_lines,
         late_payments          |-> row.late_payments,
         default_history        |-> row.default_history,
         industry               |-> row.industry,
         marital_status         |-> row.marital_status,
         education              |-> row.education,
         monthly_payment        |-> mp,
         payment_to_income      |-> payment_to_income(mp, row.income)]

\* x < t/100 and x > t/100 for a fraction x and a threshold t in hundredths
FracLess(x, t) == 100 * x.num < t * x.den

FracGreater(x, t) == 100 * x.num > t * x.den

----------------------------------------------------------------------------
(* RiskAssessment *)

\* the weights dict written in another order than risk_dimensions (default
\* history before late payments): zip() then pairs two risks with the wrong weight
RiskAssessment_reordered ==
    [weights |-> << <<"credit_score", 35>>, <<"debt_to_income", 25>>,
                    <<"payment_to_income", 15>>, <<"employment_years", 8>>,
                    <<"default_history", 5>>, <<"late_payments", 8>>,
                    <<"demographics", 4>> >>,
     industry_risk |-> << <<"finance", 100>>, <<"IT", 90>>,
                          <<"manufacturing", 110>>, <<"retail", 120>>,
                          <<"education", 80>>, <<"healthcare", 85>>,
                          <<"real_estate", 130>>, <<"other", 100>> >>,
     education_risk |-> << <<"doctorate", 70>>, <<"master", 80>>,
                           <<"bachelor", 90>>, <<"associate", 100>>,
                           <<"high_school", 120>> >>]

\* RiskAssessment.__init__: the three tables, in insertion order
RiskAssessment ==
    [weights |-> << <<"credit_score", 35>>, <<"debt_to_income", 25>>,
                    <<"payment_to_income", 15>>, <<"employment_years", 8>>,
                    <<"late_payments", 8>>, <<"default_history", 5>>,
                    <<"demographics", 4>> >>,
     industry_risk |-> << <<"finance", 100>>, <<"IT", 90>>,
                          <<"manufacturing", 110>>, <<"retail", 120>>,
                          <<"education", 80>>, <<"healthcare", 85>>,
                          <<"real_estate", 130>>, <<"other", 100>> >>,
     education_risk |-> << <<"doctorate", 70>>, <<"master", 80>>,
                           <<"bachelor", 90>>, <<"associate", 100>>,
                           <<"high_school", 120>> >>]

\* the first band written > 750: a score of 750 falls into the second band
calculate_credit_score_risk_exclusive(credit_score) ==
    IF credit_score > 750 THEN 6
    ELSE IF credit_score >= 700 THEN 30
    ELSE IF credit_score >= 650 THEN 60
    ELSE IF credit_score >= 600 THEN 105
    ELSE IF credit_score >= 550 THEN 165
    ELSE 240

calculate_credit_score_risk(credit_score) ==
    IF credit_score >= 750 THEN 6
    ELSE IF credit_score >= 700 THEN 30
    ELSE IF credit_score >= 650 THEN 60
    ELSE IF credit_score >= 600 THEN 105
    ELSE IF credit_score >= 550 THEN 165
    ELSE 240

calculate_debt_risk(debt_to_income) ==
    IF debt_to_income < 30 THEN 9
    ELSE IF debt_to_income < 40 THEN 45
    ELSE IF debt_to_income < 50 THEN 90
    ELSE IF debt_to_income < 60 THEN 150
    ELSE IF debt_to_income < 70 THEN 210
    ELSE 270

calculate_payment_risk(pti) ==
    IF FracLess(pti, 20) THEN 9
    ELSE IF FracLess(pti, 30) THEN 45
    ELSE IF FracLess(pti, 40) THEN 90
    ELSE IF FracLess(pti, 50) THEN 150
    ELSE 225

calculate_employment_risk(employment_years) ==
    IF employment_years >= 10 THEN 15
    ELSE IF employment_years >= 5 THEN 60
    ELSE IF employment_years >= 2 THEN 120
    ELSE IF employment_years >= 1 THEN 180
    ELSE 240

calculate_payment_history_risk(late_payments) ==
    IF late_payments = 0 THEN 15
    ELSE IF late_payments <= 2 THEN 60
    ELSE IF late_payments <= 5 THEN 150
    ELSE IF late_payments <= 8 THEN 210
    ELSE 270

\* the last default band returning 1.0
calculate_default_risk_certain(default_history) ==
    IF default_history = 0 THEN 30
    ELSE IF default_history = 1 THEN 120
    ELSE IF default_history = 2 THEN 210
    ELSE 300

calculate_default_risk(default_history) ==
    IF default_history = 0 THEN 30
    ELSE IF default_history = 1 THEN 120
    ELSE IF default_history = 2 THEN 210
    ELSE 270

\* the mean returned without the cap at 1.0
calculate_demographic_risk_uncapped(ra, age, industry, education) ==
    LET age_risk == IF age >= 25 /\ age <= 55 THEN 30
                    ELSE IF age >= 18 /\ age < 25 THEN 70
                    ELSE IF age > 55 /\ age <= 65 THEN 50
                    ELSE 100
        industry_risk == Get(ra.industry_risk, industry, 100)
        education_risk == Get(ra.education_risk, education, 100)
    IN  age_risk + industry_risk + education_risk

\* (age_risk + industry_risk + education_risk) / 3, capped at 1.0: the three
\* terms are hundredths, so their sum is the mean in 1/300.
calculate_demographic_risk(ra, age, industry, education) ==
    LET age_risk == IF age >= 25 /\ age <= 55 THEN 30
                    ELSE IF age >= 18 /\ age < 25 THEN 70
                    ELSE IF age > 55 /\ age <= 65 THEN 50
                    ELSE 100
        industry_risk == Get(ra.industry_risk, industry, 100)
        education_risk == Get(ra.education_risk, education, 100)
    IN  Min(age_risk + industry_risk + education_risk, 300)

\* the risk_dimensions dict, in insertion order (lines 227-244)
risk_dimensions_of(ra, u) ==
    << <<"credit_score_risk", calculate_credit_score_risk(u.credit_score)>>,
       <<"debt_risk", calculate_debt_risk(u.debt_to_income)>>,
       <<"payment_risk", calculate_payment_risk(u.payment_to_income)>>,
       <<"employment_risk", calculate_employment_risk(u.employment_years)>>,
       <<"payment_history_risk", calculate_payment_history_risk(u.late_payments)>>,
       <<"default_risk", calculate_default_risk(u.default_history)>>,
       <<"demographic_risk",
         calculate_demographic_risk(ra, u.age, u.industry, u.education)>> >>

\* sum(risk * weight for risk, weight in zip(dims.values(), weights.values()))
RECURSIVE weighted_risk(_, _)
weighted_risk(dims, weights) ==
    IF dims = <<>> \/ weights = <<>> THEN 0
    ELSE Head(dims)[2] * Head(weights)[2] + weighted_risk(Tail(dims), Tail(weights))

\* the lower clamp bound mistyped as 400
score_of_clamp_typo(dims, weights, up) ==
    LET w == weighted_risk(dims, weights)
        risk_score == 50 * 30000 + (30000 - w) * 45
        adjusted_risk_score == Max(400 * 30000, Min(95 * 30000, risk_score))
    IN  Round(adjusted_risk_score, 300, up)

\* the base of the score written 30
score_of_low_base(dims, weights, up) ==
    LET w == weighted_risk(dims, weights)
        risk_score == 30 * 30000 + (30000 - w) * 45
        adjusted_risk_score == Max(40 * 30000, Min(95 * 30000, risk_score))
    IN  Round(adjusted_risk_score, 300, up)

\* lines 251-256: 50 + (1 - W) * 45, clamped to [40, 95], rounded to 2 places.
\* W is in 1/30000, the unrounded score in 1/30000, the result in hundredths.
score_of(dims, weights, up) ==
    LET w == weighted_risk(dims, weights)
        risk_score == 50 * 30000 + (30000 - w) * 45
        adjusted_risk_score == Max(40 * 30000, Min(95 * 30000, risk_score))
    IN  Round(adjusted_risk_score, 300, up)

\* calculate_overall_risk_score: <<score, risk_dimensions>>
calculate_overall_risk_score(ra, u, up) ==
    LET dims == risk_dimensions_of(ra, u)
    IN  <<score_of(dims, ra.weights, up), dims>>

----------------------------------------------------------------------------
(* RiskControlStrategy *)

\* the test of the mode inverted: each mode gets the other preset
set_thresholds_inverted(strict_mode) ==
    IF ~strict_mode
    THEN [minimum_credit_score      |-> 620,
          maximum_debt_to_income    |-> 50,
          maximum_payment_to_income |-> 35,
          minimum_employment_years  |-> 1,
          maximum_late_payments     |-> 3,
          maximum_default_history   |-> 1,
          minimum_risk_score        |-> 60]
    ELSE [minimum_credit_score      |-> 580,
          maximum_debt_to_income    |-> 60,
          maximum_payment_to_income |-> 45,
          minimum_employment_years  |-> 0,
          maximum_late_payments     |-> 6,
          maximum_default_history   |-> 1,
          minimum_risk_score        |-> 55]

\* _set_thresholds: the threshold dict of the preset
set_thresholds(strict_mode) ==
    IF strict_mode
    THEN [minimum_credit_score      |-> 620,
          maximum_debt_to_income    |-> 50,
          maximum_payment_to_income |-> 35,
          minimum_employment_years  |-> 1,
          maximum_late_payments     |-> 3,
          maximum_default_history   |-> 1,
          minimum_risk_score        |-> 60]
    ELSE [minimum_credit_score      |-> 580,
          maximum_debt_to_income    |-> 60,
          maximum_payment_to_income |-> 45,
          minimum_employment_years  |-> 0,
          maximum_late_payments     |-> 6,
          maximum_default_history   |-> 1,
          minimum_risk_score        |-> 55]

\* RiskControlStrategy.__init__
RiskControlStrategy(strict_mode) ==
    [strict_mode     |-> strict_mode,
     risk_assessment |-> RiskAssessment,
     thresholds      |-> set_thresholds(strict_mode)]

\* the late-payment check written >= instead of >
check_hard_rules_inclusive(self, u) ==
    LET th == self.thresholds
        failed_rules ==
            (IF u.credit_score < th.minimum_credit_score
             THEN << <<"credit_score_below", th.minimum_credit_score>> >> ELSE <<>>)
         \o (IF u.debt_to_income > th.maximum_debt_to_income
             THEN << <<"debt_to_income_above", th.maximum_debt_to_income>> >> ELSE <<>>)
         \o (IF FracGreater(u.payment_to_income, th.maximum_payment_to_income)
             THEN << <<"payment_to_income_above", th.maximum_payment_to_income>> >> ELSE <<>>)
         \o (IF u.employment_years < th.minimum_employment_years
             THEN << <<"employment_years_below", th.minimum_employment_years>> >> ELSE <<>>)
         \o (IF u.late_payments >= th.maximum_late_payments
             THEN << <<"late_payments_above", th.maximum_late_payments>> >> ELSE <<>>)
         \o (IF u.default_history > th.maximum_default_history
             THEN << <<"default_history_above", th.maximum_default_history>> >> ELSE <<>>)
    IN  <<Len(failed_rules) = 0, failed_rules>>

\* check_hard_rules: <<passed, failed_rules>>; a failed rule is written
\* <<rule, threshold>>, standing for the source's message naming both.
check_hard_rules(self, u) ==
    LET th == self.thresholds
        failed_rules ==
            (IF u.credit_score < th.minimum_credit_score
             THEN << <<"credit_score_below", th.minimum_credit_score>> >> ELSE <<>>)
         \o (IF u.debt_to_income > th.maximum_debt_to_income
             THEN << <<"debt_to_income_above", th.maximum_debt_to_income>> >> ELSE <<>>)
         \o (IF FracGreater(u.payment_to_income, th.maximum_payment_to_income)
             THEN << <<"payment_to_income_above", th.maximum_payment_to_income>> >> ELSE <<>>)
         \o (IF u.employment_years < th.minimum_employment_years
             THEN << <<"employment_years_below", th.minimum_employment_years>> >> ELSE <<>>)
         \o (IF u.late_payments > th.maximum_late_payments
             THEN << <<"late_payments_above", th.maximum_late_payments>> >> ELSE <<>>)
         \o (IF u.default_history > th.maximum_default_history
             THEN << <<"default_history_above", th.maximum_default_history>> >> ELSE <<>>)
    IN  <<Len(failed_rules) = 0, failed_rules>>

\* A decision reason: the message template and the values formatted into it.
Reason(text, threshold, failed_rules, strong_factors) ==
    [text |-> text, threshold |-> threshold,
     failed_rules |-> failed_rules, strong_factors |-> strong_factors]

\* the factor categories a decision reason names: the near-miss approval
\* message of line 374 is one literal listing all four; no other message names
\* a compensating factor of this chain
categories_named(text) ==
    IF text = "score_near_threshold_with_compensating_factors"
    THEN <<"high_income", "long_employment", "good_education", "low_loan_amount">>
    ELSE <<>>

\* the loan-amount test written <= 50000
has_compensating_factors_inclusive_loan(u) ==
    IF u.income > 20000 THEN TRUE
    ELSE IF u.employment_years > 5 THEN TRUE
    ELSE IF u.education \in {"bachelor", "master", "doctorate"} THEN TRUE
    ELSE IF u.loan_amount <= 50000 THEN TRUE
    ELSE FALSE

\* the degree list without the doctorate
has_compensating_factors_no_doctorate(u) ==
    IF u.income > 20000 THEN TRUE
    ELSE IF u.employment_years > 5 THEN TRUE
    ELSE IF u.education \in {"bachelor", "master"} THEN TRUE
    ELSE IF u.loan_amount < 50000 THEN TRUE
    ELSE FALSE

\* lines 357-370: the if/elif chain setting has_compensating_factors
has_compensating_factors(u) ==
    IF u.income > 20000 THEN TRUE
    ELSE IF u.employment_years > 5 THEN TRUE
    ELSE IF u.education \in {"bachelor", "master", "doctorate"} THEN TRUE
    ELSE IF u.loan_amount < 50000 THEN TRUE
    ELSE FALSE

\* lines 383-397: the three independent ifs collecting strong_factors
strong_factors_of(u) ==
       (IF u.credit_score >= 750 THEN <<"very_high_credit_score">> ELSE <<>>)
    \o (IF u.income > 50000 THEN <<"very_high_income">> ELSE <<>>)
    \o (IF u.employment_years > 10 THEN <<"long_stable_employment">> ELSE <<>>)

\* the limit on failed rules written 2
override_applies_two(strong_factors, failed_rules) ==
    Len(strong_factors) > 0 /\ Len(failed_rules) <= 2

\* line 399: a failed gate is overridden
override_applies(strong_factors, failed_rules) ==
    Len(strong_factors) > 0 /\ Len(failed_rules) <= 1

\* lines 346-404: decision and decision_reason from the score (hundredths)
\* and the outcome of the hard-rule gate
decide(self, u, risk_score, hard_rules_passed, failed_rules) ==
    LET min_score == self.thresholds.minimum_risk_score
    IN  IF hard_rules_passed
        THEN IF risk_score >= 100 * min_score
             THEN [decision |-> "approve",
                   decision_reason |-> Reason("hard_rules_passed_and_score_meets_threshold",
                                              <<>>, <<>>, <<>>)]
             ELSE IF risk_score >= 100 * (min_score - 5)
                  THEN IF has_compensating_factors(u)
                       THEN [decision |-> "approve",
                             decision_reason |->
                                 Reason("score_near_threshold_with_compensating_factors",
                                        <<>>, <<>>, <<>>)]
                       ELSE [decision |-> "reject",
                             decision_reason |->
                                 Reason("score_below_threshold_no_compensating_factors",
                                        <<min_score>>, <<>>, <<>>)]
                  ELSE [decision |-> "reject",
                        decision_reason |-> Reason("score_below_threshold",
                                                   <<min_score>>, <<>>, <<>>)]
        ELSE LET strong_factors == strong_factors_of(u)
             IN  IF override_applies(strong_factors, failed_rules)
                 THEN [decision |-> "approve",
                       decision_reason |->
                           Reason("hard_rules_not_passed_but_strong_factors",
                                  <<>>, failed_rules, strong_factors)]
                 ELSE [decision |-> "reject",
                       decision_reason |-> Reason("hard_rules_not_passed",
                                                  <<>>, failed_rules, <<>>)]

\* lines 407-429: the result dict
build_result(self, u, d, risk_score, risk_dimensions, up) ==
    [user_id         |-> u.user_id,
     decision        |-> d.decision,
     decision_reason |-> d.decision_reason,
     risk_score      |-> risk_score,
     risk_dimensions |-> risk_dimensions,
     strict_mode     |-> self.strict_mode,
     thresholds      |-> self.thresholds,
     user_data       |->
        [age               |-> u.age,
         income            |-> u.income,
         credit_score      |-> u.credit_score,
         debt_to_income    |-> u.debt_to_income,
         loan_amount       |-> u.loan_amount,
         monthly_payment   |-> u.monthly_payment,
         payment_to_income |-> RoundPlaces(u.payment_to_income.num,
                                           u.payment_to_income.den, 4, up),
         employment_years  |-> u.employment_years,
         late_payments     |-> u.late_payments,
         default_history   |-> u.default_history]]

\* evaluate_loan_application from the two values bound at lines 340 and 343
evaluate_from(self, u, sc, ch, up) ==
    build_result(self, u, decide(self, u, sc[1], ch[1], ch[2]), sc[1], sc[2], up)

\* evaluate_loan_application
evaluate_loan_application(self, u, up) ==
    evaluate_from(self, u,
                  calculate_overall_risk_score(self.risk_assessment, u, up),
                  check_hard_rules(self, u), up)

----------------------------------------------------------------------------
(* Inputs *)

\* a DataFrame row with the 14 columns read by create_user_data_from_row
Row(user_id, age, income, credit_score, debt_to_income, loan_amount, loan_term, employment_years, late_payments, default_history, industry, education) ==
    [user_id                |-> user_id,
     age                    |-> age,
     income                 |-> income,
     credit_score           |-> credit_score,
     debt_to_income         |-> debt_to_income,
     loan_amount            |-> loan_amount,
     loan_term              |-> loan_term,
     employment_years       |-> employment_years,
     number_of_credit_lines |-> 3,
     late_payments          |-> late_payments,
     default_history        |-> default_history,
     industry               |-> industry,
     marital_status         |-> "married",
     education              |-> education]

\* <<income, loan_amount, loan_term>>: payment-to-income 0.335, 0.168, 0.377,
\* 0.753 and 0.045 (income on both sides of 50000); income 0 and negative;
\* negative loan amount; negative and zero loan term.  Loan terms stay at 1 and
\* 2 months because 241^n must fit the model checker's integers.
Profiles ==
    { <<6000, 2000, 1>>, <<6000, 2000, 2>>, <<6000, 4500, 2>>, <<6000, 4500, 1>>,
      <<50000, 4500, 2>>, <<50001, 4500, 2>>, <<0, 4500, 1>>, <<-1000, 2000, 2>>,
      <<6000, -5000, 1>>, <<6000, 2000, -1>>, <<6000, 2000, 0>>, <<0, 0, 0>> }

Industries ==
    {"finance", "IT", "manufacturing", "retail", "education", "healthcare",
     "real_estate", "other", "unlisted"}

Degrees ==
    {"doctorate", "master", "bachelor", "associate", "high_school", "unlisted"}

\* every combination of values on both sides of each hard-rule threshold of
\* both presets, and the strong compensating factors
RuleRows ==
    { Row("USER_1", 30, f[1], c, d, f[2], f[3], e, l, h, "IT", "bachelor") :
        c \in {579, 580, 619, 620, 749, 750}, d \in {50, 51, 60, 61}, f \in Profiles,
        e \in {-1, 0, 1, 10, 11}, l \in {3, 4, 6, 7}, h \in {0, 1, 2} }

\* the best and the worst applicant of the band tables, under every age band,
\* industry and degree
DemographicRows ==
    { Row("USER_1", a, 30000, 800, 20, 4000, 2, 12, 0, 0, i, g) :
        a \in {-5, 17, 18, 24, 25, 55, 56, 65, 66}, i \in Industries, g \in Degrees }
    \cup
    { Row("USER_1", a, 6000, 500, 80, 4500, 1, 0, 9, 3, i, g) :
        a \in {-5, 17, 18, 24, 25, 55, 56, 65, 66}, i \in Industries, g \in Degrees }

\* the applicants that pass each preset's gate on every boundary with the
\* largest risk the gate lets through (a default count of -1 passes the
\* maximum and falls in the last default band), under every age band,
\* industry and degree
BoundaryRows ==
    { Row("USER_1", a, 6000, 620, 50, 2000, 1, 1, 3, -1, i, g) :
        a \in {-5, 17, 18, 24, 25, 55, 56, 65, 66}, i \in Industries, g \in Degrees }
    \cup
    { Row("USER_1", a, 6000, 580, 60, 5000, 2, 0, 6, -1, i, g) :
        a \in {-5, 17, 18, 24, 25, 55, 56, 65, 66}, i \in Industries, g \in Degrees }

Rows == RuleRows \cup DemographicRows \cup BoundaryRows

\* rows on both sides of each near-miss compensating factor, with the gate
\* passed (credit score 620) and failed (579)
DecideRows ==
    { Row("USER_1", 30, n, c, 20, a, 1, e, 0, 0, "IT", g) :
        n \in {0, 20000, 20001}, c \in {579, 620}, a \in {2000, 49999, 50000},
        e \in {5, 6}, g \in {"bachelor", "master", "doctorate", "associate"} }

\* composite scores (hundredths) on both sides of each preset's threshold and
\* near-miss bound, and the two ends of the clamp range
ScoreSamples == {4000, 4999, 5000, 5499, 5500, 5999, 6000, 9500}

\* the rows of a batch: an applicant both policies approve, one both reject on
\* four or more rules, one only the relaxed gate passes, one approved on a
\* strong factor with one failed rule, one on the late-payment threshold, one
\* with negative figures, and one whose loan term is 0
SampleRows ==
    { Row("USER_A", 30, 30000, 800, 20, 4000, 2, 12, 0, 0, "IT", "bachelor"),
      Row("USER_B", 40, 6000, 560, 75, 300000, 2, 0, 9, 3, "retail", "high_school"),
      Row("USER_C", 35, 25000, 600, 55, 5000, 2, 6, 0, 0, "finance", "associate"),
      Row("USER_D", 50, 6000, 760, 55, 2000, 2, 3, 1, 0, "other", "master"),
      Row("USER_E", 28, 6000, 700, 30, 2000, 1, 2, 3, 1, "IT", "bachelor"),
      Row("USER_F", -5, -1000, 640, 10, -5000, -1, -1, 0, 0, "unlisted", "unlisted"),
      Row("USER_G", 30, 6000, 700, 30, 2000, 0, 2, 0, 0, "IT", "bachelor") }

\* number of rows of a batch
MaxRows == 3

Batches == UNION { [1..n -> SampleRows] : n \in 0..MaxRows }

----------------------------------------------------------------------------
(* run_strategy_test: the batch loop *)

\* the state every run starts from: both strategies constructed, no results
Constructed ==
    /\ strict_strategy = RiskControlStrategy(TRUE)
    /\ relaxed_strategy = RiskControlStrategy(FALSE)
    /\ strict_results = <<>>
    /\ relaxed_results = <<>>
    /\ checked = <<>>
    /\ round_up \in BOOLEAN

Init ==
    /\ Constructed
    /\ data \in Batches
    /\ user_data = <<>>
    /\ scored = <<>>
    /\ pc = "loop"

\* the row the for loop takes next
HasNextRow == Len(strict_results) < Len(data)

NextRow == data[Len(strict_results) + 1]

\* an iteration after which the relaxed strategy has lowered its own
\* minimum credit score
IterateRow_relaxing ==
    /\ pc = "loop"
    /\ HasNextRow
    /\ ~ConstructionRaises(NextRow)
    /\ LET u  == UserCreditData(NextRow)
           sc == calculate_overall_risk_score(relaxed_strategy.risk_assessment, u, round_up)
           ch == check_hard_rules(relaxed_strategy, u)
       IN  /\ user_data' = <<u>>
           /\ strict_results' =
                  Append(strict_results, evaluate_loan_application(strict_strategy, u, round_up))
           /\ relaxed_results' = Append(relaxed_results, evaluate_from(relaxed_strategy, u, sc, ch, round_up))
           /\ scored' = sc
           /\ checked' = ch
    /\ relaxed_strategy' =
           [relaxed_strategy EXCEPT !.thresholds.minimum_credit_score = @ - 20]
    /\ UNCHANGED <<data, strict_strategy, round_up, pc>>

\* an iteration in which each evaluation leaves the scorer's weights rotated
\* by one place
IterateRow_reweighting ==
    /\ pc = "loop"
    /\ HasNextRow
    /\ ~ConstructionRaises(NextRow)
    /\ LET u  == UserCreditData(NextRow)
           sc == calculate_overall_risk_score(relaxed_strategy.risk_assessment, u, round_up)
           ch == check_hard_rules(relaxed_strategy, u)
       IN  /\ user_data' = <<u>>
           /\ strict_results' =
                  Append(strict_results, evaluate_loan_application(strict_strategy, u, round_up))
           /\ relaxed_results' = Append(relaxed_results, evaluate_from(relaxed_strategy, u, sc, ch, round_up))
           /\ scored' = sc
           /\ checked' = ch
    /\ strict_strategy' =
           [strict_strategy EXCEPT !.risk_assessment.weights = Tail(@) \o <<Head(@)>>]
    /\ relaxed_strategy' =
           [relaxed_strategy EXCEPT !.risk_assessment.weights = Tail(@) \o <<Head(@)>>]
    /\ UNCHANGED <<data, round_up, pc>>

\* one iteration of the loop: build the applicant, evaluate it under the
\* strict and then the relaxed strategy, append both results
IterateRow ==
    /\ pc = "loop"
    /\ HasNextRow
    /\ ~ConstructionRaises(NextRow)
    /\ LET u  == UserCreditData(NextRow)
           sc == calculate_overall_risk_score(relaxed_strategy.risk_assessment, u, round_up)
           ch == check_hard_rules(relaxed_strategy, u)
       IN  /\ user_data' = <<u>>
           /\ strict_results' =
                  Append(strict_results, evaluate_loan_application(strict_strategy, u, round_up))
           /\ relaxed_results' = Append(relaxed_results, evaluate_from(relaxed_strategy, u, sc, ch, round_up))
           /\ scored' = sc
           /\ checked' = ch
    /\ UNCHANGED <<data, strict_strategy, relaxed_strategy, round_up, pc>>

\* an iteration whose UserCreditData(...) raises: nothing catches the
\* exception, so it leaves run_strategy_test and no result list is returned
IterateRaises ==
    /\ pc = "loop"
    /\ HasNextRow
    /\ ConstructionRaises(NextRow)
    /\ pc' = "raised"
    /\ UNCHANGED <<data, strict_strategy, relaxed_strategy, strict_results,
                   relaxed_results, user_data, scored, checked, round_up>>

\* the loop is exhausted: return {'strict': ..., 'relaxed': ...}
ReturnResults ==
    /\ pc = "loop"
    /\ ~HasNextRow
    /\ pc' = "done"
    /\ UNCHANGED <<data, strict_strategy, relaxed_strategy, strict_results,
                   relaxed_results, user_data, scored, checked, round_up>>

Next == IterateRow \/ IterateRaises \/ ReturnResults

Spec == Init /\ [][Next]_vars

----------------------------------------------------------------------------
(* One applicant, step by step: construction, strict and relaxed evaluation *)

InitEval ==
    /\ Constructed
    /\ data = <<>>
    /\ user_data = <<>>
    /\ scored = <<>>
    /\ pc = "start"

Construct ==
    /\ pc = "start"
    /\ \E row \in Rows :
        /\ ~ConstructionRaises(row)
        /\ data' = <<row>>
        /\ user_data' = <<UserCreditData(row)>>
    /\ pc' = "constructed"
    /\ UNCHANGED <<strict_strategy, relaxed_strategy, strict_results,
                   relaxed_results, scored, checked, round_up>>

ConstructRaises ==
    /\ pc = "start"
    /\ \E row \in Rows :
        /\ ConstructionRaises(row)
        /\ data' = <<row>>
    /\ pc' = "raised"
    /\ UNCHANGED <<strict_strategy, relaxed_strategy, strict_results,
                   relaxed_results, user_data, scored, checked, round_up>>

EvaluateStrict ==
    /\ pc = "constructed"
    /\ LET u  == user_data[1]
           sc == calculate_overall_risk_score(strict_strategy.risk_assessment, u, round_up)
           ch == check_hard_rules(strict_strategy, u)
       IN  /\ scored' = sc
           /\ checked' = ch
           /\ strict_results' =
                  Append(strict_results, evaluate_from(strict_strategy, u, sc, ch, round_up))
    /\ pc' = "strict_done"
    /\ UNCHANGED <<data, strict_strategy, relaxed_strategy, relaxed_results,
                   user_data, round_up>>

EvaluateRelaxed ==
    /\ pc = "strict_done"
    /\ LET u  == user_data[1]
           sc == calculate_overall_risk_score(relaxed_strategy.risk_assessment, u, round_up)
           ch == check_hard_rules(relaxed_strategy, u)
       IN  /\ scored' = sc
           /\ checked' = ch
           /\ relaxed_results' =
                  Append(relaxed_results, evaluate_from(relaxed_strategy, u, sc, ch, round_up))
    /\ pc' = "done"
    /\ UNCHANGED <<data, strict_strategy, relaxed_strategy, strict_results,
                   user_data, round_up>>

NextEval == Construct \/ ConstructRaises \/ EvaluateStrict \/ EvaluateRelaxed

SpecEval == InitEval /\ [][NextEval]_vars

----------------------------------------------------------------------------
(* The decision block of evaluate_loan_application (lines 345-429) on its     *)
(* own: the score bound at line 340 is any value of the range the scorer     *)
(* clamps to, so that every branch of the block is taken.                    *)

InitDecide ==
    /\ Constructed
    /\ \E row \in DecideRows, s \in ScoreSamples :
        /\ data = <<row>>
        /\ user_data = <<UserCreditData(row)>>
        /\ scored = <<s, risk_dimensions_of(RiskAssessment, UserCreditData(row))>>
    /\ pc = "scored"

DecideStrict ==
    /\ pc = "scored"
    /\ LET u  == user_data[1]
           ch == check_hard_rules(strict_strategy, u)
       IN  /\ checked' = ch
           /\ strict_results' =
                  Append(strict_results, evaluate_from(strict_strategy, u, scored, ch, round_up))
    /\ pc' = "strict_done"
    /\ UNCHANGED <<data, strict_strategy, relaxed_strategy, relaxed_results,
                   user_data, scored, round_up>>

DecideRelaxed ==
    /\ pc = "strict_done"
    /\ LET u  == user_data[1]
           ch == check_hard_rules(relaxed_strategy, u)
       IN  /\ checked' = ch
           /\ relaxed_results' =
                  Append(relaxed_results, evaluate_from(relaxed_strategy, u, scored, ch, round_up))
    /\ pc' = "done"
    /\ UNCHANGED <<data, strict_strategy, relaxed_strategy, strict_results,
                   user_data, scored, round_up>>

NextDecide == DecideStrict \/ DecideRelaxed

SpecDecide == InitDecide /\ [][NextDecide]_vars

----------------------------------------------------------------------------
(* calculate_credit_score_risk on its own: a few calls, each on any score *)

\* credit scores: every band boundary with its two neighbours, the ends of
\* the usual 300-850 range, and values far outside it
CreditScores ==
    { -1000, -1, 0, 300, 549, 550, 551, 599, 600, 601, 649, 650, 651,
      699, 700, 701, 749, 750, 751, 850, 100000 }

\* number of calls
MaxCalls == 2

InitCredit ==
    /\ Constructed
    /\ data = <<>>
    /\ user_data = <<>>
    /\ scored = <<>>
    /\ pc = "credit"

\* one call: data keeps the argument, scored the value returned
ScoreCredit ==
    /\ pc = "credit"
    /\ Len(data) < MaxCalls
    /\ \E c \in CreditScores :
        /\ data' = Append(data, c)
        /\ scored' = Append(scored, calculate_credit_score_risk(c))
    /\ UNCHANGED <<strict_strategy, relaxed_strategy, strict_results,
                   relaxed_results, user_data, checked, round_up, pc>>

NextCredit == ScoreCredit

SpecCredit == InitCredit /\ [][NextCredit]_vars

----------------------------------------------------------------------------
(* Properties *)

\* an evaluation has just returned (SpecEval, SpecDecide)
Evaluated == pc \in {"strict_done", "done"}

\* the strategy that ran it, its result, and the applicant
LastStrategy == IF pc = "strict_done" THEN strict_strategy ELSE relaxed_strategy

LastResult == IF pc = "strict_done" THEN strict_results[1] ELSE relaxed_results[1]

U == user_data[1]

\* C1: monotonic relaxation.  Whenever the strict strategy approved an
\* applicant, the relaxed strategy's result for the same applicant is approve.
C1_MonotonicRelaxation ==
    \A i \in 1..Len(relaxed_results) :
        strict_results[i].decision = "approve" => relaxed_results[i].decision = "approve"

\* strict approved on the strong-factor override with exactly one failed rule
C1_Witness ==
    /\ pc = "done"
    /\ Len(relaxed_results) = 1
    /\ strict_results[1].decision = "approve"
    /\ strict_results[1].decision_reason.text = "hard_rules_not_passed_but_strong_factors"
    /\ Len(strict_results[1].decision_reason.failed_rules) = 1
    /\ relaxed_results[1].decision = "approve"

\* C2: with the gate failed the decision is approve exactly when a strong
\* factor holds (credit score >= 750, income > 50000 or employment years > 10)
\* and at most one hard rule failed; otherwise it is reject.
C2_GateFailedOverride ==
    (Evaluated /\ ~checked[1]) =>
        LET strong == \/ U.credit_score >= 750
                      \/ U.income > 50000
                      \/ U.employment_years > 10
        IN  /\ LastResult.decision \in {"approve", "reject"}
            /\ LastResult.decision = "approve" <=> (strong /\ Len(checked[2]) <= 1)

\* two or more failed rules, a strong factor present, rejected
C2_Witness ==
    /\ Evaluated
    /\ ~checked[1]
    /\ Len(checked[2]) >= 2
    /\ U.credit_score >= 750
    /\ LastResult.decision = "reject"

\* C3: with the gate passed, a score at or above minimum_risk_score approves;
\* a score below it but at or above minimum_risk_score - 5 approves exactly
\* when income > 20000, employment years > 5, a bachelor's, master's or
\* doctorate degree, or loan amount < 50000 holds; a lower score rejects.
C3_GatePassedByScore ==
    (Evaluated /\ checked[1]) =>
        LET s == scored[1]
            m == 100 * LastStrategy.thresholds.minimum_risk_score
            compensated == \/ U.income > 20000
                           \/ U.employment_years > 5
                           \/ U.education \in {"bachelor", "master", "doctorate"}
                           \/ U.loan_amount < 50000
        IN  /\ LastResult.decision \in {"approve", "reject"}
            /\ s >= m => LastResult.decision = "approve"
            /\ (s < m /\ s >= m - 500) => (LastResult.decision = "approve" <=> compensated)
            /\ s < m - 500 => LastResult.decision = "reject"

\* a near-miss score approved on a compensating factor
C3_Witness ==
    /\ Evaluated
    /\ checked[1]
    /\ scored[1] < 100 * LastStrategy.thresholds.minimum_risk_score
    /\ scored[1] >= 100 * (LastStrategy.thresholds.minimum_risk_score - 5)
    /\ LastResult.decision = "approve"

\* the six hard rules in the order of the claim
RuleViolated(i, u, th) ==
    CASE i = 1 -> u.credit_score < th.minimum_credit_score
      [] i = 2 -> u.debt_to_income > th.maximum_debt_to_income
      [] i = 3 -> 100 * u.payment_to_income.num >
                      th.maximum_payment_to_income * u.payment_to_income.den
      [] i = 4 -> u.employment_years < th.minimum_employment_years
      [] i = 5 -> u.late_payments > th.maximum_late_payments
      [] i = 6 -> u.default_history > th.maximum_default_history

RuleEntry(i, th) ==
    CASE i = 1 -> <<"credit_score_below", th.minimum_credit_score>>
      [] i = 2 -> <<"debt_to_income_above", th.maximum_debt_to_income>>
      [] i = 3 -> <<"payment_to_income_above", th.maximum_payment_to_income>>
      [] i = 4 -> <<"employment_years_below", th.minimum_employment_years>>
      [] i = 5 -> <<"late_payments_above", th.maximum_late_payments>>
      [] i = 6 -> <<"default_history_above", th.maximum_default_history>>

ExpectedFailures(u, th) ==
    LET violated(i) == RuleViolated(i, u, th)
        v == SelectSeq(<<1, 2, 3, 4, 5, 6>>, violated)
    IN  [k \in 1..Len(v) |-> RuleEntry(v[k], th)]

\* C4: the failure list returned by check_hard_rules holds one entry for each
\* violated rule, in the order of the six checks, each comparison strict, and
\* the gate passes exactly when the list is empty.
C4_HardRulesList ==
    Evaluated =>
        LET expected == ExpectedFailures(U, LastStrategy.thresholds)
        IN  /\ Len(checked[2]) = Len(expected)
            /\ \A k \in 1..Len(expected) : checked[2][k] = expected[k]
            /\ checked[1] <=> (Len(expected) = 0)

\* every attribute exactly on its strict threshold, and the gate passes
C4_Witness ==
    /\ pc = "strict_done"
    /\ U.credit_score = 620
    /\ U.debt_to_income = 50
    /\ U.employment_years = 1
    /\ U.late_payments = 3
    /\ U.default_history = 1
    /\ checked[1]

\* C5: constructing UserCreditData and evaluating never raises, whatever the
\* numeric values of the attributes.
C5_NeverRaises == pc # "raised"

\* the rows of the batch whose construction does not raise, in input order
Constructible(rows) ==
    LET ok(r) == ~ConstructionRaises(r)
    IN  SelectSeq(rows, ok)

\* C6: when the batch run ends, every row whose construction does not fail has
\* exactly one result under each policy, in input order.
C6_BatchSurvivesFailure ==
    pc \in {"done", "raised"} =>
        LET ok == Constructible(data)
        IN  /\ Len(strict_results) = Len(ok)
            /\ Len(relaxed_results) = Len(ok)
            /\ \A i \in 1..Len(ok) :
                   /\ strict_results[i].user_id = ok[i].user_id
                   /\ relaxed_results[i].user_id = ok[i].user_id

\* C7: the composite score is within [40, 95].
C7_ScoreInRange ==
    /\ scored # <<>> => (scored[1] >= 4000 /\ scored[1] <= 9500)
    /\ \A i \in 1..Len(strict_results) :
           strict_results[i].risk_score >= 4000 /\ strict_results[i].risk_score <= 9500
    /\ \A i \in 1..Len(relaxed_results) :
           relaxed_results[i].risk_score >= 4000 /\ relaxed_results[i].risk_score <= 9500

\* the worst applicant of the band tables has been scored
C7_Witness ==
    /\ Evaluated
    /\ scored[1] < 5800
    /\ LastResult.risk_score = scored[1]

\* the weighted sum of the claim, each dimension taken by name (1/30000)
ClaimedWeightedRisk(dims) ==
      35 * Get(dims, "credit_score_risk", 0)
    + 25 * Get(dims, "debt_risk", 0)
    + 15 * Get(dims, "payment_risk", 0)
    +  8 * Get(dims, "employment_risk", 0)
    +  8 * Get(dims, "payment_history_risk", 0)
    +  5 * Get(dims, "default_risk", 0)
    +  4 * Get(dims, "demographic_risk", 0)

\* clamp(50 + (1 - W) * 45, 40, 95) in 1/30000
ClaimedScore(dims) ==
    Max(40 * 30000, Min(95 * 30000, 50 * 30000 + (30000 - ClaimedWeightedRisk(dims)) * 45))

RECURSIVE SumOfValues(_)
SumOfValues(dict) ==
    IF dict = <<>> THEN 0 ELSE Head(dict)[2] + SumOfValues(Tail(dict))

\* C8: the score is clamp(50 + (1 - W) * 45, 40, 95) rounded to two places,
\* W pairing each dimension with its own weight, the weights summing to 1.
C8_ScoreFormula ==
    Evaluated =>
        /\ Abs(300 * scored[1] - ClaimedScore(scored[2])) <= 150
        /\ LastResult.risk_score = scored[1]
        /\ SumOfValues(LastStrategy.risk_assessment.weights) = 100

\* an applicant whose late-payment and default risks differ, as do the
\* credit-score and debt risks
C8_Witness ==
    /\ Evaluated
    /\ Get(scored[2], "payment_history_risk", 0) # Get(scored[2], "default_risk", 0)
    /\ Get(scored[2], "credit_score_risk", 0) # Get(scored[2], "debt_risk", 0)
    /\ Get(scored[2], "employment_risk", 0) # Get(scored[2], "payment_risk", 0)

\* C9: determinism and history independence.  Two rows of a batch that are
\* equal get equal results under each policy, and every result equals the one
\* a freshly constructed strategy gives for the row.
C9_HistoryIndependent ==
    /\ \A i, j \in 1..Len(strict_results) :
           data[i] = data[j] =>
               /\ strict_results[i] = strict_results[j]
               /\ relaxed_results[i] = relaxed_results[j]
    /\ \A i \in 1..Len(strict_results) :
           /\ strict_results[i] =
                  evaluate_loan_application(RiskControlStrategy(TRUE),
                                            UserCreditData(data[i]), round_up)
           /\ relaxed_results[i] =
                  evaluate_loan_application(RiskControlStrategy(FALSE),
                                            UserCreditData(data[i]), round_up)

\* the same row evaluated first and again after a different row
C9_Witness ==
    /\ pc = "done"
    /\ Len(strict_results) >= 3
    /\ data[1] = data[3]
    /\ data[1] # data[2]

\* the presets as the claim lists them (ratios in hundredths)
StrictPreset ==
    [minimum_credit_score |-> 620, maximum_debt_to_income |-> 50,
     maximum_payment_to_income |-> 35, minimum_employment_years |-> 1,
     maximum_late_payments |-> 3, maximum_default_history |-> 1,
     minimum_risk_score |-> 60]

RelaxedPreset ==
    [minimum_credit_score |-> 580, maximum_debt_to_income |-> 60,
     maximum_payment_to_income |-> 45, minimum_employment_years |-> 0,
     maximum_late_payments |-> 6, maximum_default_history |-> 1,
     minimum_risk_score |-> 55]

\* C10: the thresholds of both strategies keep the values of their presets,
\* and every result reports those values.
C10_ThresholdsImmutable ==
    /\ strict_strategy.thresholds = StrictPreset
    /\ relaxed_strategy.thresholds = RelaxedPreset
    /\ \A i \in 1..Len(strict_results) : strict_results[i].thresholds = StrictPreset
    /\ \A i \in 1..Len(relaxed_results) : relaxed_results[i].thresholds = RelaxedPreset

\* a batch of two or more rows evaluated to the end
C10_Witness ==
    /\ pc = "done"
    /\ Len(strict_results) >= 2
    /\ Len(relaxed_results) = Len(strict_results)

ClaimedCreditRisk(c) ==
    CASE c >= 750            -> 6
      [] c >= 700 /\ c <= 749 -> 30
      [] c >= 650 /\ c <= 699 -> 60
      [] c >= 600 /\ c <= 649 -> 105
      [] c >= 550 /\ c <= 599 -> 165
      [] c < 550             -> 240

\* C12: calculate_credit_score_risk returns the table value of the band of
\* the score, the lower boundary of a band belonging to it, and never returns
\* more for a higher score than for a lower one.
C12_CreditScoreRisk ==
    pc = "credit" =>
        /\ \A i \in 1..Len(scored) : scored[i] = ClaimedCreditRisk(data[i])
        /\ \A i, j \in 1..Len(scored) : data[i] <= data[j] => scored[i] >= scored[j]

\* the two sides of the 750 boundary
C12_Witness ==
    /\ pc = "credit"
    /\ Len(scored) >= 2
    /\ data[1] = 749 /\ scored[1] = 30
    /\ data[2] = 750 /\ scored[2] = 6

\* the age bands of the claim (hundredths)
ClaimedAgeRisk(age) ==
    CASE age \in 25..55 -> 30
      [] age \in 18..24 -> 70
      [] age \in 56..65 -> 50
      [] OTHER          -> 100

\* C13: each of the seven per-dimension risks is within [0, 1] (0..300 in
\* 1/300), and the demographic risk is the mean of the age-band risk and the
\* industry and education coefficients, 1.0 for an unknown key, capped at 1.0.
C13_RisksInUnitRange ==
    Evaluated =>
        LET dims == scored[2]
            ra   == LastStrategy.risk_assessment
        IN  /\ Len(dims) = 7
            /\ \A k \in 1..7 : dims[k][2] >= 0 /\ dims[k][2] <= 300
            /\ LastResult.risk_dimensions = dims
            /\ Get(dims, "demographic_risk", -1) =
                   Min(ClaimedAgeRisk(U.age)
                         + Get(ra.industry_risk, U.industry, 100)
                         + Get(ra.education_risk, U.education, 100), 300)

\* an age outside 18..65 and an unknown industry: the mean exceeds 1.0 and
\* the risk returned is 1.0
C13_Witness ==
    /\ Evaluated
    /\ U.age < 18
    /\ U.industry = "unlisted"
    /\ U.education = "high_school"
    /\ Get(scored[2], "demographic_risk", -1) = 300

\* the gate passed and the score is in the near-miss band
NearMiss ==
    /\ Evaluated
    /\ checked[1]
    /\ scored[1] < 100 * LastStrategy.thresholds.minimum_risk_score
    /\ scored[1] >= 100 * (LastStrategy.thresholds.minimum_risk_score - 5)

\* the factors of the claim that hold for u, in the order of the claim
FactorsHolding(u) ==
       (IF u.income > 20000 THEN <<"high_income">> ELSE <<>>)
    \o (IF u.employment_years > 5 THEN <<"long_employment">> ELSE <<>>)
    \o (IF u.education \in {"bachelor", "master", "doctorate"}
        THEN <<"good_education">> ELSE <<>>)
    \o (IF u.loan_amount < 50000 THEN <<"low_loan_amount">> ELSE <<>>)

C15_GatePassedApproved ==
    Evaluated =>
        LET strong == \/ U.credit_score >= 750
                      \/ U.income > 50000
                      \/ U.employment_years > 10
        IN  /\ checked[1] =>
                /\ scored[1] >= 100 * LastStrategy.thresholds.minimum_risk_score
                /\ LastResult.decision = "approve"
                /\ LastResult.decision_reason.text
                       = "hard_rules_passed_and_score_meets_threshold"
            /\ LastResult.decision_reason.text
                   \notin {"score_near_threshold_with_compensating_factors",
                           "score_below_threshold_no_compensating_factors",
                           "score_below_threshold"}
            /\ LastResult.decision = "approve"
                   <=> (checked[1] \/ (Len(checked[2]) = 1 /\ strong))

\* the strict gate passed on every boundary with the largest risks it lets
\* through, approved
C15_Witness ==
    /\ pc = "strict_done"
    /\ checked[1]
    /\ U.credit_score = 620
    /\ U.default_history = -1
    /\ scored[1] <= 7405
    /\ LastResult.decision = "approve"

\* the score of line 251 before the clamp, from the recorded dimensions
\* (1/30000)
UnclampedScore(dims) == 50 * 30000 + (30000 - ClaimedWeightedRisk(dims)) * 45

\* C16: the clamp to [40, 95] never changes the value.  For every applicant
\* W lies between 0.056 and 0.8385, the unclamped score 50 + (1 - W) * 45
\* between 57.2675 and 92.48, inside the clamp range, and the composite score
\* returned is never below 57.27 or above 92.48.
C16_ClampIsNoOp ==
    Evaluated =>
        LET w == ClaimedWeightedRisk(scored[2])
            x == UnclampedScore(scored[2])
        IN  /\ w = weighted_risk(scored[2], LastStrategy.risk_assessment.weights)
            /\ w >= 1680 /\ w <= 25155
            /\ x >= 1718025 /\ x <= 2774400
            /\ Max(40 * 30000, Min(95 * 30000, x)) = x
            /\ scored[1] = Round(x, 300, round_up)
            /\ scored[1] >= 5727 /\ scored[1] <= 9248
            /\ LastResult.risk_score >= 5727 /\ LastResult.risk_score <= 9248

\* the best applicant of the band tables has been scored
C16_Witness ==
    /\ Evaluated
    /\ ClaimedWeightedRisk(scored[2]) = 1680
    /\ scored[1] = 9248
    /\ LastResult.risk_score = 9248

====
